---------------------------- MODULE Spec2Model ----------------------------
(***************************************************************************)
(* The Diffusive Gibbs transition kernel of blackjax/mcmc/diffusive_gibbs. *)
(*                                                                         *)
(* Numbers are exact rationals <<numerator, denominator>> in lowest terms  *)
(* with a positive denominator.  A position (an ArrayTree) is a sequence   *)
(* of NLeaves leaves, each leaf a 0-d array, i.e. one rational; for a 0-d  *)
(* array jnp.linalg.norm is the absolute value and jnp.sum the identity.   *)
(* A pseudo-random key is a path: jax.random.split(key, n) yields the n    *)
(* children of key.  What a sampling primitive draws from a key is chosen  *)
(* from a small set by the action that consumes the key.                   *)
(***************************************************************************)
EXTENDS Integers, Sequences, FiniteSets

(* ------------------------------ bounds -------------------------------- *)

\* number of step calls the driving loop makes
MaxCount == 2

\* configuration n_steps of as_top_level_api (inner refinement transitions)
n_steps == 2

\* number of leaves of a position
NLeaves == 2

(* ------------------------- exact arithmetic --------------------------- *)

Abs(n) == IF n < 0 THEN -n ELSE n

RECURSIVE GCD(_, _)
GCD(a, b) == IF b = 0 THEN a ELSE GCD(b, a % b)

\* the rational n/d in normal form (d # 0)
R(n, d) ==
    LET g == GCD(Abs(n), Abs(d))
        s == IF d < 0 THEN -1 ELSE 1
    IN  <<(s * n) \div g, (s * d) \div g>>

Zero == <<0, 1>>
RInt(n) == <<n, 1>>
RAdd(a, b) == R(a[1] * b[2] + b[1] * a[2], a[2] * b[2])
RNeg(a) == <<-a[1], a[2]>>
RSub(a, b) == RAdd(a, RNeg(b))
RMul(a, b) == R(a[1] * b[1], a[2] * b[2])
RDiv(a, b) == R(a[1] * b[2], a[2] * b[1])
RAbs(a) == <<Abs(a[1]), a[2]>>
RLess(a, b) == a[1] * b[2] < b[1] * a[2]

\* jax.tree.map(f, s, t) of trees of one structure is written
\* [i \in DOMAIN s |-> f(s[i], t[i])] throughout.

\* jax.tree_util.tree_reduce(jnp.add, t), from the first leaf on
RECURSIVE tree_reduce_add(_)
tree_reduce_add(t) ==
    IF Len(t) = 1 THEN t[1]
    ELSE RAdd(tree_reduce_add(SubSeq(t, 1, Len(t) - 1)), t[Len(t)])

(* --------------------------- configuration ---------------------------- *)

\* the target log density handed to as_top_level_api: a standard Normal,
\* up to its constant: -(1/2) * sum of squares
logdensity_fn(x) ==
    RNeg(RDiv(tree_reduce_add([i \in DOMAIN x |-> RMul(x[i], x[i])]),
              RInt(2)))

\* jax.value_and_grad(logdensity_fn): the value and the gradient -x
grad_fn(x) == <<logdensity_fn(x), [i \in DOMAIN x |-> RNeg(x[i])]>>

\* the schedule handed to as_top_level_api: count -> (contraction, sigma),
\* contraction in (0, 1), sigma > 0, both changing with count
schedule(c) == <<R(1, c + 2), RInt(c + 3)>>

(* ------------------------------- state -------------------------------- *)

GibbsState(pos, ld, ld_grad, contraction, sigma, c) ==
    [position |-> pos, logdensity |-> ld, logdensity_grad |-> ld_grad,
     noise_contraction |-> contraction, noise_sigma |-> sigma, count |-> c]

\* a GibbsState is a NamedTuple: the tuple of its six fields
as_tuple(st) ==
    <<st.position, st.logdensity, st.logdensity_grad, st.noise_contraction,
      st.noise_sigma, st.count>>


(* ------------------------- sampling primitives ------------------------ *)

\* jax.random.split(key, n): the n children of key
split(key, n) == [i \in 1..n |-> Append(key, i)]

\* the keys a caller hands to step
StepKeys == {<<0>>, <<1>>}

\* what jax.random.normal can draw for a tree of NLeaves leaves
GaussianDraws ==
    {[i \in 1..NLeaves |-> IF i = 1 THEN 1 ELSE 0],
     [i \in 1..NLeaves |-> IF i % 2 = 1 THEN -1 ELSE 1]}

\* blackjax.util.generate_gaussian_noise(rng_key, position, mu, sigma):
\* mu + sigma * z, z the standard Normal draw of rng_key
generate_gaussian_noise(z, mu, sigma) ==
    [i \in DOMAIN z |-> RAdd(mu, RMul(sigma, RInt(z[i])))]

\* jnp.clip(jnp.exp(log_accept), 0.0, 1.0) is 1 exactly when
\* log_accept >= 0, and lies strictly between 0 and 1 otherwise
prob_accept_is_one(log_accept) == ~RLess(log_accept, Zero)

\* jax.random.bernoulli(rng_key, prob_accept): the uniform draw of rng_key
\* is below prob_accept; always so when prob_accept = 1
bernoulli(below, certain) == certain \/ below

\* the positions a caller hands to init
PositionInputs ==
    {[i \in 1..NLeaves |-> Zero],
     [i \in 1..NLeaves |-> RInt(IF i = 1 THEN 1 ELSE -2)]}

(* ------------------------------ noiser -------------------------------- *)

noiser(z, st) ==
    LET noise == generate_gaussian_noise(z, Zero, st.noise_sigma)
    IN  [i \in DOMAIN st.position |->
            RAdd(RMul(st.noise_contraction, st.position[i]), noise[i])]

(* ---------------------------- noiser_logpdf -------------------------- *)

\* A sum of n Normal log densities of one scale is
\*     quad - n * ln(log_scale) - n * ln(sqrt(2 * pi)),
\* held as the record of quad, log_scale and n.  With rational arguments
\* two such sums are equal exactly when their records are equal, ln of a
\* rational other than 1 being irrational.
\* jax.scipy.stats.norm.logpdf(x, loc, scale) of one element
norm_logpdf(x, loc, scale) ==
    [quad |-> RNeg(RDiv(RMul(RSub(x, loc), RSub(x, loc)),
                        RMul(RInt(2), RMul(scale, scale)))),
     log_scale |-> scale,
     n |-> 1]

\* .sum() over the elements of an array of such log densities
RECURSIVE logpdf_sum(_)
logpdf_sum(t) ==
    IF Len(t) = 1 THEN t[1]
    ELSE LET rest == logpdf_sum(SubSeq(t, 1, Len(t) - 1))
         IN  [quad |-> RAdd(rest.quad, t[Len(t)].quad),
              log_scale |-> rest.log_scale,
              n |-> rest.n + 1]

\* sample_noised and sample_clean are arrays of NLeaves elements
noiser_logpdf(st, sample_noised, sample_clean) ==
    LET mean == [i \in DOMAIN sample_clean |->
                    RMul(sample_clean[i], st.noise_contraction)]
        scale == RMul(st.noise_sigma, st.noise_sigma)
    IN  logpdf_sum([i \in DOMAIN sample_noised |->
                       norm_logpdf(sample_noised[i], mean[i], scale)])

\* the arrays a caller hands to noiser_logpdf
SampleInputs == [1..NLeaves -> {RInt(-1), RInt(0), RInt(1)}]

NoArgs == [sample_noised |-> <<>>, sample_clean |-> <<>>]
NoLogpdf == [quad |-> Zero, log_scale |-> Zero, n |-> 0]

(* --------------------------- init_denoising --------------------------- *)

gaussian_term(a, b, scale) ==
    LET gauss_terms ==
            [i \in DOMAIN a |->
                RNeg(RDiv(RAbs(RSub(a[i], b[i])),
                          RMul(RInt(2), RMul(scale, scale))))]
    IN  tree_reduce_add(gauss_terms)

\* jnp.where(do_accept, x, y) on every leaf, do_accept a scalar
where(do_accept, a, b) ==
    [i \in DOMAIN a |-> IF do_accept THEN a[i] ELSE b[i]]

\* lines 102-138.  z: the Normal draw of rng_key; below: whether the
\* uniform draw of rng_key is below prob_accept.  Returns the locals.
acceptance_test(z, below, noised, st) ==
    LET a == st.noise_contraction
        s == st.noise_sigma
        noise == generate_gaussian_noise(z, Zero, RDiv(s, a))
        proposal_position ==
            [i \in DOMAIN noised |-> RAdd(RDiv(noised[i], a), noise[i])]
        scaled_noised == [i \in DOMAIN noised |-> RDiv(noised[i], a)]
        proposal_logratio ==
            RSub(gaussian_term(st.position, scaled_noised, RDiv(s, a)),
                 gaussian_term(proposal_position, scaled_noised, RDiv(s, a)))
        scaled_proposal ==
            [i \in DOMAIN proposal_position |-> RMul(proposal_position[i], a)]
        scaled_position ==
            [i \in DOMAIN st.position |-> RMul(st.position[i], a)]
        noising_logratio ==
            RSub(gaussian_term(scaled_proposal, noised, s),
                 gaussian_term(scaled_position, noised, s))
        diff_logdensity ==
            RSub(logdensity_fn(proposal_position), logdensity_fn(st.position))
        log_accept ==
            RAdd(RAdd(diff_logdensity, proposal_logratio), noising_logratio)
    IN  [z |-> z,
         proposal_position |-> proposal_position,
         log_accept |-> log_accept,
         do_accept |-> bernoulli(below, prob_accept_is_one(log_accept))]

\* init_denoising falling back to the noised position when it rejects
init_denoising_reject_to_noised(z, below, noised, st) ==
    LET t == acceptance_test(z, below, noised, st)
    IN  [z |-> t.z,
         proposal_position |-> t.proposal_position,
         log_accept |-> t.log_accept,
         do_accept |-> t.do_accept,
         result |-> where(t.do_accept, t.proposal_position, noised)]

\* the acceptance test, then lines 140-142: the locals with the result
init_denoising(z, below, noised, st) ==
    LET t == acceptance_test(z, below, noised, st)
    IN  [z |-> t.z,
         proposal_position |-> t.proposal_position,
         log_accept |-> t.log_accept,
         do_accept |-> t.do_accept,
         result |-> where(t.do_accept, t.proposal_position, st.position)]

\* no init_denoising call on record
NoCall ==
    [z |-> <<>>, proposal_position |-> <<>>, log_accept |-> Zero,
     do_accept |-> FALSE, result |-> <<>>]

(* ------------------------------ variables ---------------------------- *)

VARIABLES
    pc,                 \* where the driving caller and the kernel stand
    state,              \* the GibbsState the caller holds
    step_result,        \* what the last call of step returned
    ncalls,             \* number of step calls that have returned
    rng_key,            \* kernel: the key of this call
    noise_contraction,  \* kernel local, line 214, rebound on line 235
    noise_sigma,        \* kernel local, line 214, rebound on line 235
    count,              \* kernel local, line 214, rebound on line 234
    logdensity,         \* kernel local, line 216
    logdensity_grad,    \* kernel local, line 216
    z_noiser,           \* the Normal draw the noiser made from its key
    noised_position,    \* kernel local, line 219
    init_call,          \* locals and result of the init_denoising call
    position,           \* kernel local, line 220
    inner_state,        \* denoise: the carry of the scan
    keys,               \* denoise: the keys the scan has still to consume
    inner_calls,        \* denoise: the denoiser.step calls made, in order
    surrogate_env,      \* what conditional_logprob read on each evaluation
    denoised,           \* kernel local, line 231
    key_uses,           \* which operation consumed which key in this call
    logpdf_args,        \* the arguments of the last noiser_logpdf call
    logpdf_out          \* what the last noiser_logpdf call returned

caller == <<pc, state, step_result, ncalls>>
frame == <<rng_key, noise_contraction, noise_sigma, count, logdensity,
           logdensity_grad, z_noiser, noised_position, init_call, position,
           inner_state, keys, inner_calls, surrogate_env, denoised, key_uses>>
diag == <<logpdf_args, logpdf_out>>
vars == <<caller, frame, diag>>

(* ---------------------------- inner sampler --------------------------- *)

\* the tethered surrogate density; a closure over the kernel's locals
\* noise_contraction, noise_sigma and noised_position, read when called
conditional_logprob(x) ==
    LET scaled_position == [i \in DOMAIN x |-> RMul(x[i], noise_contraction)]
        norm_tree ==
            [i \in DOMAIN x |->
                RDiv(RMul(RSub(scaled_position[i], noised_position[i]),
                          RSub(scaled_position[i], noised_position[i])),
                     RMul(RInt(2), RMul(noise_sigma, noise_sigma)))]
    IN  RSub(logdensity_fn(x), tree_reduce_add(norm_tree))

\* what one evaluation of conditional_logprob reads
closure_cells == <<noise_contraction, noise_sigma, noised_position>>

\* the displacements the inner sampler can propose
InnerMoves == {[i \in 1..NLeaves |-> RInt(IF i = NLeaves THEN 1 ELSE 0)]}

\* blackjax.mala(conditional_logprob, 1e-2).init(position, rng_key)
denoiser_init(x) == [position |-> x, logdensity |-> conditional_logprob(x)]

\* blackjax.mala(conditional_logprob, 1e-2).step(rng_key, state): proposes
\* a move, evaluates the density there and accepts it or keeps the state;
\* returns (new_state, info)
denoiser_step(st, move, accepted) ==
    LET proposal == [i \in DOMAIN move |-> RAdd(st.position[i], move[i])]
        proposed == [position |-> proposal,
                     logdensity |-> conditional_logprob(proposal)]
    IN  <<IF accepted THEN proposed ELSE st, [is_accepted |-> accepted]>>

NoInner == [position |-> <<>>, logdensity |-> Zero]

(* ------------------------------- kernel ------------------------------- *)

\* kernel_unpack reading the pair of the next count from the schedule
kernel_unpack_next(st) ==
    <<schedule(st.count + 1)[1], schedule(st.count + 1)[2], st.count>>

\* line 214: the locals unpacked from the state
kernel_unpack(st) == <<st.noise_contraction, st.noise_sigma, st.count>>

\* kernel_emit without line 234's increment of count
kernel_emit_same_count(denoised_position, ld, ld_grad, c) ==
    LET sched == schedule(c + 1)
    IN  GibbsState(denoised_position, ld, ld_grad, sched[1], sched[2], c)

\* kernel_emit asking the schedule for the pair of the old count
kernel_emit_old_schedule(denoised_position, ld, ld_grad, c) ==
    LET sched == schedule(c)
    IN  GibbsState(denoised_position, ld, ld_grad, sched[1], sched[2], c + 1)

\* kernel_emit evaluating the target again, at the returned position
kernel_emit_fresh_logdensity(denoised_position, ld, ld_grad, c) ==
    LET sched == schedule(c + 1)
        vg == grad_fn(denoised_position)
    IN  GibbsState(denoised_position, vg[1], vg[2], sched[1], sched[2],
                   c + 1)

\* lines 234-238: the state the kernel returns
kernel_emit(denoised_position, ld, ld_grad, c) ==
    LET new_count == c + 1
        sched == schedule(new_count)
    IN  GibbsState(denoised_position, ld, ld_grad, sched[1], sched[2],
                   new_count)

\* as_top_level_api.init, lines 268-276
init_state(p) ==
    LET vg == grad_fn(p)
        sched == schedule(0)
    IN  GibbsState(p, vg[1], vg[2], sched[1], sched[2], 0)

\* the frame of a kernel call that has not started or has returned
NoFrame ==
    /\ rng_key = <<>>
    /\ noise_contraction = Zero
    /\ noise_sigma = Zero
    /\ count = 0
    /\ logdensity = Zero
    /\ logdensity_grad = <<>>
    /\ z_noiser = <<>>
    /\ noised_position = <<>>
    /\ init_call = NoCall
    /\ position = <<>>
    /\ inner_state = NoInner
    /\ keys = <<>>
    /\ inner_calls = <<>>
    /\ surrogate_env = {}
    /\ denoised = <<>>
    /\ key_uses = {}

\* as_top_level_api has returned the SamplingAlgorithm; nothing is called
Init ==
    /\ pc = "new"
    /\ state = GibbsState(<<>>, Zero, <<>>, Zero, Zero, 0)
    /\ step_result = <<>>
    /\ ncalls = 0
    /\ NoFrame
    /\ logpdf_args = NoArgs
    /\ logpdf_out = NoLogpdf

\* the caller calls init(position)
init ==
    /\ pc = "new"
    /\ \E p \in PositionInputs : state' = init_state(p)
    /\ pc' = "ready"
    /\ UNCHANGED <<step_result, ncalls, frame, diag>>

\* the caller calls step(rng_key, state); kernel lines 214-219
kernel_noiser ==
    /\ pc = "ready"
    /\ ncalls < MaxCount
    /\ \E k \in StepKeys, z \in GaussianDraws :
          /\ rng_key' = k
          /\ z_noiser' = z
          /\ noised_position' = noiser(z, state)
          /\ key_uses' = {[key |-> k, op |-> "kernel.split"],
                          [key |-> split(k, 3)[1],
                           op |-> "noiser.generate_gaussian_noise"]}
    /\ noise_contraction' = kernel_unpack(state)[1]
    /\ noise_sigma' = kernel_unpack(state)[2]
    /\ count' = kernel_unpack(state)[3]
    /\ logdensity' = grad_fn(state.position)[1]
    /\ logdensity_grad' = grad_fn(state.position)[2]
    /\ pc' = "noised"
    /\ UNCHANGED <<state, step_result, ncalls, init_call, position,
                   inner_state, keys, inner_calls, surrogate_env, denoised, diag>>

\* kernel line 220
kernel_init_denoising ==
    /\ pc = "noised"
    /\ \E z \in GaussianDraws, below \in BOOLEAN :
          init_call' = init_denoising(z, below, noised_position, state)
    /\ position' = init_call'.result
    /\ key_uses' = key_uses \cup
          {[key |-> split(rng_key, 3)[2],
            op |-> "init_denoising.generate_gaussian_noise"],
           [key |-> split(rng_key, 3)[2], op |-> "init_denoising.bernoulli"]}
    /\ pc' = "initialized"
    /\ UNCHANGED <<state, step_result, ncalls, rng_key, noise_contraction,
                   noise_sigma, count, logdensity, logdensity_grad, z_noiser,
                   noised_position, inner_state, keys, inner_calls,
                   surrogate_env, denoised, diag>>

\* scan_keys one key short
scan_keys_short(key, n) == split(key, n - 1)

\* the keys the scan of denoise runs over, line 172
scan_keys(key, n) == split(key, n)

\* kernel line 231 entering denoise, lines 166-172
denoise_init ==
    /\ pc = "initialized"
    /\ inner_state' = denoiser_init(position)
    /\ surrogate_env' = surrogate_env \cup {closure_cells}
    /\ keys' = scan_keys(split(rng_key, 3)[3], n_steps)
    /\ key_uses' = key_uses \cup
          {[key |-> split(rng_key, 3)[3], op |-> "denoise.denoiser.init"],
           [key |-> split(rng_key, 3)[3], op |-> "denoise.split"]}
    /\ pc' = "scanning"
    /\ UNCHANGED <<state, step_result, ncalls, rng_key, noise_contraction,
                   noise_sigma, count, logdensity, logdensity_grad, z_noiser,
                   noised_position, init_call, position, inner_calls,
                   denoised, diag>>

\* one iteration of the scan, lines 168-170 and 173
body_fn ==
    /\ pc = "scanning"
    /\ keys # <<>>
    /\ \E move \in InnerMoves, accepted \in BOOLEAN :
          LET out == denoiser_step(inner_state, move, accepted)
          IN  /\ inner_state' = out[1]
              /\ inner_calls' = Append(inner_calls,
                                       [key |-> Head(keys),
                                        input |-> inner_state,
                                        output |-> out[1]])
    /\ surrogate_env' = surrogate_env \cup {closure_cells}
    /\ key_uses' = key_uses \cup
          {[key |-> Head(keys), op |-> "body_fn.denoiser.step"]}
    /\ keys' = Tail(keys)
    /\ UNCHANGED <<caller, rng_key, noise_contraction, noise_sigma, count,
                   logdensity, logdensity_grad, z_noiser, noised_position,
                   init_call, position, denoised, diag>>

\* the scan is over; denoise returns, line 175, to kernel line 231
denoise_return ==
    /\ pc = "scanning"
    /\ keys = <<>>
    /\ denoised' = inner_state.position
    /\ pc' = "denoised"
    /\ UNCHANGED <<state, step_result, ncalls, rng_key, noise_contraction,
                   noise_sigma, count, logdensity, logdensity_grad, z_noiser,
                   noised_position, init_call, position, inner_state, keys,
                   inner_calls, surrogate_env, key_uses, diag>>

\* kernel lines 234-239; step, line 279, returns what the kernel returned
kernel_return ==
    /\ pc = "denoised"
    /\ state' = kernel_emit(denoised, logdensity, logdensity_grad, count)
    /\ step_result' = as_tuple(state')
    /\ ncalls' = ncalls + 1
    /\ pc' = "ready"
    /\ rng_key' = <<>>
    /\ noise_contraction' = Zero
    /\ noise_sigma' = Zero
    /\ count' = 0
    /\ logdensity' = Zero
    /\ logdensity_grad' = <<>>
    /\ z_noiser' = <<>>
    /\ noised_position' = <<>>
    /\ init_call' = NoCall
    /\ position' = <<>>
    /\ inner_state' = NoInner
    /\ keys' = <<>>
    /\ inner_calls' = <<>>
    /\ surrogate_env' = {}
    /\ denoised' = <<>>
    /\ key_uses' = {}
    /\ UNCHANGED diag

Next ==
    \/ init
    \/ kernel_noiser
    \/ kernel_init_denoising
    \/ denoise_init
    \/ body_fn
    \/ denoise_return
    \/ kernel_return

Spec == Init /\ [][Next]_vars

(* --------------------- noiser_logpdf on its own ----------------------- *)

\* a caller holds some GibbsState of the chain and no kernel call runs
InitLogpdf ==
    /\ pc = "ready"
    /\ \E p \in PositionInputs, c \in 0..MaxCount :
          /\ state = GibbsState(p, grad_fn(p)[1], grad_fn(p)[2],
                                schedule(c)[1], schedule(c)[2], c)
          /\ ncalls = c
    /\ step_result = <<>>
    /\ NoFrame
    /\ logpdf_args = NoArgs
    /\ logpdf_out = NoLogpdf

\* the caller calls noiser_logpdf(state, sample_noised, sample_clean)
call_noiser_logpdf ==
    /\ pc = "ready"
    /\ \E y \in SampleInputs, x \in SampleInputs :
          /\ logpdf_args' = [sample_noised |-> y, sample_clean |-> x]
          /\ logpdf_out' = noiser_logpdf(state, y, x)
    /\ UNCHANGED <<caller, frame>>

NextLogpdf == call_noiser_logpdf

SpecLogpdf == InitLogpdf /\ [][NextLogpdf]_vars

(* ------------------------------ properties --------------------------- *)

InKernel == pc \in {"noised", "initialized", "scanning", "denoised"}
AfterInitDenoising == pc \in {"initialized", "scanning", "denoised"}

\* C1: init returns count = 0 and every step adds exactly 1 to count, so
\* that after k step calls the caller's state has count = k.
CountIsNumberOfSteps_C1 ==
    pc # "new" => state.count = ncalls

CountWitness_C1 ==
    pc = "ready" /\ ncalls = MaxCount /\ state.count = MaxCount

\* C2: the pair (noise_contraction, noise_sigma) of every state the caller
\* holds is schedule(count) of that state.
NoiseFollowsSchedule_C2 ==
    pc # "new" =>
        <<state.noise_contraction, state.noise_sigma>> = schedule(state.count)

NoiseWitness_C2 ==
    /\ pc = "ready"
    /\ ncalls >= 1
    /\ <<state.noise_contraction, state.noise_sigma>> = schedule(state.count)
    /\ schedule(state.count) # schedule(state.count - 1)

\* C3: step returns the pair (new state, None), not the bare state.
StepReturnsPair_C3 ==
    ncalls > 0 =>
        /\ Len(step_result) = 2
        /\ step_result[1] = state
        /\ step_result[2] = "None"

\* C4: within one kernel call no key is consumed by two operations.
KeysConsumedOnce_C4 ==
    \A e1 \in key_uses, e2 \in key_uses : e1.key = e2.key => e1.op = e2.op

\* C5: the state init returns carries the target's value and gradient at
\* its own position; the state a kernel call returns carries them at the
\* position of the state the call was given.
StaleLogdensity_C5 ==
    [][/\ pc = "new" /\ pc' = "ready" =>
            /\ state'.logdensity = grad_fn(state'.position)[1]
            /\ state'.logdensity_grad = grad_fn(state'.position)[2]
       /\ pc = "denoised" /\ pc' = "ready" =>
            /\ state'.logdensity = grad_fn(state.position)[1]
            /\ state'.logdensity_grad = grad_fn(state.position)[2]]_vars

StaleWitness_C5 ==
    /\ pc = "ready"
    /\ ncalls >= 1
    /\ state.logdensity # grad_fn(state.position)[1]
    /\ state.logdensity_grad # grad_fn(state.position)[2]

\* C6: init_denoising returns the whole proposal when the decision
\* accepts and the whole state.position when it rejects.
WholeProposalOrPosition_C6 ==
    AfterInitDenoising =>
        /\ init_call.do_accept => position = init_call.proposal_position
        /\ ~init_call.do_accept => position = state.position

RejectWitness_C6 ==
    /\ pc = "initialized"
    /\ ~init_call.do_accept
    /\ position = state.position
    /\ \A i \in 1..NLeaves :
          /\ init_call.proposal_position[i] # state.position[i]
          /\ noised_position[i] # state.position[i]

\* the log density of x under Normal(mean, std), summed over the elements
normal_logdensity(x, mean, std) ==
    [quad |-> RNeg(RDiv(tree_reduce_add(
                            [i \in DOMAIN x |->
                                RMul(RSub(x[i], mean[i]),
                                     RSub(x[i], mean[i]))]),
                        RMul(RInt(2), RMul(std, std)))),
     log_scale |-> std,
     n |-> Len(x)]

\* C7: noiser_logpdf is the log density of noised_sample under the Normal
\* of mean noise_contraction * clean_sample and standard deviation
\* noise_sigma, summed over the elements.
LogpdfOfForwardKernel_C7 ==
    logpdf_args # NoArgs =>
        logpdf_out =
            normal_logdensity(
                logpdf_args.sample_noised,
                [i \in 1..NLeaves |->
                    RMul(state.noise_contraction,
                         logpdf_args.sample_clean[i])],
                state.noise_sigma)

\* G(u, v, scale): minus the squared distance over 2 * scale^2, summed
\* over the leaves
squared_gaussian_term(u, v, scale) ==
    tree_reduce_add(
        [i \in DOMAIN u |->
            RNeg(RDiv(RMul(RSub(u[i], v[i]), RSub(u[i], v[i])),
                      RMul(RInt(2), RMul(scale, scale))))])

\* C8: log_accept is the target's difference plus the two differences of
\* Gaussian terms that are quadratic in the distance.
QuadraticLogAccept_C8 ==
    AfterInitDenoising =>
        LET a == state.noise_contraction
            s == state.noise_sigma
            y == noised_position
            prop == init_call.proposal_position
            x == state.position
            y_over_a == [i \in DOMAIN y |-> RDiv(y[i], a)]
            times_a(t) == [i \in DOMAIN t |-> RMul(a, t[i])]
        IN  init_call.log_accept =
                RAdd(RAdd(RSub(logdensity_fn(prop), logdensity_fn(x)),
                          RSub(squared_gaussian_term(x, y_over_a, RDiv(s, a)),
                               squared_gaussian_term(prop, y_over_a,
                                                     RDiv(s, a)))),
                     RSub(squared_gaussian_term(times_a(prop), y, s),
                          squared_gaussian_term(times_a(x), y, s)))

\* C9: denoise starts the inner sampler at the position it is given, makes
\* n_steps step calls, each on the state the call before returned and each
\* with its own key of the split, and returns the last state's position.
SequentialRefinement_C9 ==
    /\ pc = "scanning" => Len(inner_calls) + Len(keys) = n_steps
    /\ pc \in {"scanning", "denoised"} =>
          /\ inner_calls = <<>> => inner_state.position = position
          /\ inner_calls # <<>> =>
                /\ inner_calls[1].input.position = position
                /\ inner_state = inner_calls[Len(inner_calls)].output
          /\ \A i \in 1..Len(inner_calls) :
                /\ inner_calls[i].key = Append(split(rng_key, 3)[3], i)
                /\ i > 1 => inner_calls[i].input = inner_calls[i - 1].output
    /\ pc = "denoised" =>
          /\ Len(inner_calls) = n_steps
          /\ denoised = inner_calls[n_steps].output.position

RefinementWitness_C9 ==
    /\ pc = "denoised"
    /\ Len(inner_calls) = n_steps
    /\ \A i \in 1..n_steps :
          inner_calls[i].output.position # inner_calls[i].input.position
    /\ denoised # position

\* C10: in a kernel call on state s the noising, the proposal and every
\* evaluation of the surrogate density use schedule(s.count) and the one
\* noised position; the refinement starts from init_denoising's result and
\* the returned position is the refinement's result.
PreTransitionNoise_C10 ==
    [][LET pair == schedule(state.count)
       IN  /\ InKernel =>
                 /\ noised_position =
                        [i \in 1..NLeaves |->
                            RAdd(RMul(pair[1], state.position[i]),
                                 RMul(pair[2], RInt(z_noiser[i])))]
                 /\ \A e \in surrogate_env :
                        e = <<pair[1], pair[2], noised_position>>
           /\ AfterInitDenoising =>
                 /\ init_call.proposal_position =
                        [i \in 1..NLeaves |->
                            RAdd(RDiv(noised_position[i], pair[1]),
                                 RMul(RDiv(pair[2], pair[1]),
                                      RInt(init_call.z[i])))]
                 /\ position = init_call.result
           /\ pc \in {"scanning", "denoised"} /\ inner_calls # <<>> =>
                 inner_calls[1].input.position = position
           /\ pc = "denoised" /\ pc' = "ready" =>
                 /\ denoised = inner_state.position
                 /\ state'.position = denoised]_vars

SurrogateWitness_C10 ==
    /\ pc = "denoised"
    /\ state.count >= 1
    /\ Cardinality(surrogate_env) = 1
    /\ schedule(state.count + 1) # schedule(state.count)
    /\ \A e \in surrogate_env :
          e = <<state.noise_contraction, state.noise_sigma, noised_position>>

=============================================================================
